---- MODULE Spec2Model ----
(***************************************************************************)
(* Model of the battle server in src/serv.js: the player registry          *)
(* (players), the Battle class (state machine, damage, turn timer) and the *)
(* socket handlers that create, drive, cancel and clean up battles.        *)
(*                                                                         *)
(* One action per socket event or timer callback; Node's event loop runs   *)
(* each handler to completion, so every handler is one atomic step.        *)
(* Handlers that touch neither players nor battles (clans, chat,           *)
(* read-only queries) are left out.                                        *)
(***************************************************************************)
EXTENDS Integers, FiniteSets, Sequences, TLC

\* ---------------------------------------------------------------- bounds
MaxSockets == 3          \* connections ever opened
\* what one run of Spec may do: three connections, two battles
MaxBattles == 2          \* Battle objects constructed
MaxAttacks == 1          \* accepted attacks
MaxTimeouts == 1         \* timer callbacks on an active battle
MaxProfileEvents == 0    \* re-joins and updates of registered players
\* what one run of SpecDuel may do: two connections, one battle
DuelAttacks == 2
DuelTimeouts == 6
\* what one run of SpecLong may do: two connections, one battle left to its timer
LongAttacks == 1
LongTimeouts == 40

ProfileAttacks == 2
ProfileTimeouts == 1
ProfileEvents == 1
\* what one run of SpecNames may do: two connections choosing their names
NamesTimeouts == 1
NamesEvents == 2
ChallengeTimeouts == 2
MaxChallenges == 2

Sockets == 1..MaxSockets          \* socket.id values (never reused)
BattleIds == 1..MaxBattles        \* ids generateBattleId can hand out
Null == 0                         \* null battle id / null winner / null timer
UnknownBattle == MaxBattles + 1   \* a battle id no battle carries

\* values a client may put in playerData.resources / playerData.clickPower;
\* the empty set stands for a field that is not supplied
ResourceChoices == {0, 35}
ClickPowerChoices == {1, 850}
TaskRewardChoices == {100}   \* reward of a daily task (100, 150 or 200 as seeded)
\* display names: a base and the _NNN it ends in (Null when it ends in none);
\* NameChoices are the names a client may put in playerData.name, SuffixChoices
\* the values 100 + Math.floor(Math.random() * 900) is let to take
NoSuffix == Null
DefaultBase == "Kot"
NameChoices == {[base |-> "Tom", suffix |-> NoSuffix], [base |-> "Tom", suffix |-> 100]}
SuffixChoices == {100, 101}
OptNames == {{}} \cup {{n} : n \in NameChoices}
OptResources == {{}} \cup {{r} : r \in ResourceChoices}
OptClickPower == {{}} \cup {{c} : c \in ClickPowerChoices}

\* ---------------------------------------------------------------- BATTLE_CONFIG
MAX_HEALTH == 100
ATTACK_COST == 10
SPECIAL_ATTACK_COST == 25
BASE_ATTACK_DAMAGE == 10
SPECIAL_ATTACK_DAMAGE == 25
MAX_TURNS == 20
TIMEOUT_DAMAGE == 5
REWARD_BASE == 50
REWARD_PER_TURN == 5

VARIABLES
    conn,       \* per socket id: "new" (not yet connected), "open", "closed"
    players,    \* the players array: registered socket id -> player record
    battle,     \* the Battle objects still referenced, by battle id
    battles,    \* the battles array: ids of the Battle objects it holds
    timers,     \* pending setTimeout handles: <<battle id, handle>>
    created,    \* number of Battle objects constructed so far
    lastEvent,  \* the event processed by the last step and its outcome
    challenged, \* the challenges forwarded so far: <<challenger, target>>
    budget      \* what the run may still do within the bounds above

vars == <<conn, players, battle, battles, timers, created, lastEvent,
          challenged, budget>>

Max(a, b) == IF a >= b THEN a ELSE b

Registered == DOMAIN players
Allocated == DOMAIN battle

NoBattles == [i \in {} |-> Null]

\* lastEvent: the last event that changed the server's state or threw.  bid is
\* the battle it acted on (Null when none); removed holds the Battle objects it
\* dropped from the battles array, as it left them.  An event that is answered
\* with an error message, or only forwarded, changes nothing and is a
\* stuttering step.  notices are the 'battle-cancelled' messages it emitted,
\* as <<receiving socket, battle id>>.
EventNotifying(type, bid, result, removed, notices) ==
    [type |-> type, bid |-> bid, result |-> result, removed |-> removed,
     notices |-> notices]

EventRemoving(type, bid, result, removed) ==
    EventNotifying(type, bid, result, removed, {})

Event(type, bid, result) == EventRemoving(type, bid, result, NoBattles)

\* A Battle object stays referenced while the battles array holds it or a
\* pending timeout's closure does; after that nothing can read or write it.
Referenced(bs, ts) == bs \cup {t[1] : t \in ts}

\* ---------------------------------------------------------------- Battle
\* constructor(player1, player2): health is an object keyed by player id, so
\* when both arguments are the same player it has a single key
NewBattle(p1, p2) ==
    [player1 |-> p1, player2 |-> p2,
     turn |-> 0, currentPlayer |-> p1,
     health |-> [p \in {p1, p2} |-> MAX_HEALTH],
     actionsLen |-> 0, lastAction |-> "none",
     status |-> "active", winner |-> Null,
     turnTimer |-> Null,
     finishCalls |-> 0]

getOpponent_AlwaysFirst(b, playerId) == b.player1

getOpponent(b, playerId) ==
    IF playerId = b.player1 THEN b.player2 ELSE b.player1

isParticipant(b, playerId) ==
    b.player1 = playerId \/ b.player2 = playerId

IsActive_Always(b) == TRUE

\* this.status === 'active' (performAttack, the timer callback, battle-attack)
IsActive(b) == b.status = "active"

ApplyDamage_Unclamped(health, damage) == health - damage

\* Math.max(0, this.health[id] - damage)
ApplyDamage(health, damage) == Max(0, health - damage)

\* A world is what a Battle method can read and write: the registry, the
\* Battle object itself (id bid) and the pending timeouts.
World(ps, b, ts) == [players |-> ps, b |-> b, timers |-> ts]

\* setTimeout handles: the handle armed while the battle's turn is t is t + 1
\* (a battle arms at most one timer per value of turn, so handles are unique)
TimerHandle(turn) == turn + 1
ArmedTurn(handle) == handle - 1

\* clearTimeout(handle): a no-op when the timeout already fired or was cleared
clearTimeout_Nothing(ts, bid, handle) == ts

clearTimeout(ts, bid, handle) == ts \ {<<bid, handle>>}

\* players[i].resources += amount, when findIndex finds the player
AddResources(ps, id, amount) ==
    IF id \in DOMAIN ps
    THEN [ps EXCEPT ![id].resources = @ + amount]
    ELSE ps

Reward_NextTurn(turn) == REWARD_BASE + (turn + 1) * REWARD_PER_TURN

\* const reward = 50 + this.turn * 5
Reward(turn) == REWARD_BASE + turn * REWARD_PER_TURN

finishBattle(w, bid, winnerId) ==
    World(AddResources(w.players, winnerId, Reward(w.b.turn)),
          [w.b EXCEPT !.status = "finished",
                      !.winner = winnerId,
                      !.finishCalls = @ + 1],
          IF w.b.turnTimer # Null
          THEN clearTimeout(w.timers, bid, w.b.turnTimer)
          ELSE w.timers)

getWinnerByHealth_Lower(b, coin) ==
    IF b.health[b.player1] < b.health[b.player2] THEN b.player1
    ELSE IF b.health[b.player2] < b.health[b.player1] THEN b.player2
    ELSE IF coin THEN b.player1 ELSE b.player2

\* the coin is Math.random() > 0.5 of the tie branch: TRUE picks player1
getWinnerByHealth(b, coin) ==
    IF b.health[b.player1] > b.health[b.player2] THEN b.player1
    ELSE IF b.health[b.player2] > b.health[b.player1] THEN b.player2
    ELSE IF coin THEN b.player1 ELSE b.player2

\* the setTimeout part of startTurnTimer: clear the previous handle, arm a new one
startTurnTimer_NotArmed(w, bid) == w

startTurnTimer(w, bid) ==
    LET cleared == IF w.b.turnTimer # Null
                   THEN clearTimeout(w.timers, bid, w.b.turnTimer)
                   ELSE w.timers
        handle == TimerHandle(w.b.turn)
    IN  World(w.players,
              [w.b EXCEPT !.turnTimer = handle],
              cleared \cup {<<bid, handle>>})

cancelBattle_StatusKept(w, bid) == w

cancelBattle(w, bid) ==
    World(w.players,
          [w.b EXCEPT !.status = "cancelled",
                      !.actionsLen = @ + 1,
                      !.lastAction = "cancel"],
          IF w.b.turnTimer # Null
          THEN clearTimeout(w.timers, bid, w.b.turnTimer)
          ELSE w.timers)

\* ---------------------------------------------------------------- performAttack
AttackCost_AlwaysNormal(isSpecial) == ATTACK_COST

AttackCost(isSpecial) == IF isSpecial THEN SPECIAL_ATTACK_COST ELSE ATTACK_COST

\* damage before the random spread: base + floor(clickPower * 0.1)
BaseDamage(clickPower, isSpecial) ==
    (IF isSpecial THEN SPECIAL_ATTACK_DAMAGE ELSE BASE_ATTACK_DAMAGE)
        + (clickPower \div 10)

\* variance = floor(damage * 0.2)
Variance(damage) == damage \div 5

\* Math.floor(Math.random() * (variance * 2 + 1)) ranges over 0 .. 2*variance;
\* the runs draw its least, middle and greatest value
RandomDraws(clickPower, isSpecial) ==
    LET v == Variance(BaseDamage(clickPower, isSpecial))
    IN  {0, v, 2 * v}

Damage(clickPower, isSpecial, draw) ==
    BaseDamage(clickPower, isSpecial) + draw
        - Variance(BaseDamage(clickPower, isSpecial))

AttackAllowed_AnyBalance(w, attackerId, isSpecial) ==
    IsActive(w.b) /\ w.b.currentPlayer = attackerId

\* the three early returns of performAttack
AttackAllowed(w, attackerId, isSpecial) ==
    /\ IsActive(w.b)
    /\ w.b.currentPlayer = attackerId
    /\ ~(w.players[attackerId].resources < AttackCost(isSpecial))

\* performAttack past its early returns
performAttack(w, bid, attackerId, isSpecial, draw, coin) ==
    LET b == w.b
        defender == getOpponent(b, attackerId)
        cost == AttackCost(isSpecial)
        ps1 == AddResources(w.players, attackerId, 0 - cost)
        damage == Damage(w.players[attackerId].clickPower, isSpecial, draw)
        b1 == [b EXCEPT !.health[defender] = ApplyDamage(@, damage),
                        !.actionsLen = @ + 1,
                        !.lastAction = IF isSpecial THEN "special" ELSE "attack"]
        w1 == World(ps1, b1, w.timers)
    IN  IF b1.health[defender] <= 0
        THEN finishBattle(w1, bid, attackerId)
        ELSE LET b2 == [b1 EXCEPT !.currentPlayer = defender, !.turn = @ + 1]
                 w2 == World(ps1, b2, w.timers)
             IN  IF b2.turn >= MAX_TURNS
                 THEN finishBattle(w2, bid, getWinnerByHealth(b2, coin))
                 ELSE w2

\* ---------------------------------------------------------------- turn timer
\* the callback startTurnTimer hands to setTimeout
timerCallback(w, bid) ==
    IF IsActive(w.b)
    THEN LET b == w.b
             skippedPlayer == b.currentPlayer
             opponent == getOpponent(b, skippedPlayer)
             b1 == [b EXCEPT !.health[skippedPlayer] = ApplyDamage(@, TIMEOUT_DAMAGE),
                             !.actionsLen = @ + 1,
                             !.lastAction = "timeout"]
             w1 == World(w.players, b1, w.timers)
         IN  IF b1.health[skippedPlayer] <= 0
             THEN finishBattle(w1, bid, opponent)
             ELSE startTurnTimer(
                      World(w.players,
                            [b1 EXCEPT !.currentPlayer = opponent, !.turn = @ + 1],
                            w.timers),
                      bid)
    ELSE w

\* ---------------------------------------------------------------- events
Init ==
    /\ conn = [s \in Sockets |-> "new"]
    /\ players = [s \in {} |-> 0]
    /\ battle = NoBattles
    /\ battles = {}
    /\ timers = {}
    /\ created = 0
    /\ lastEvent = Event("init", Null, "ok")
    /\ challenged = {}
    /\ budget = [battles |-> MaxBattles, attacks |-> MaxAttacks,
                 timeouts |-> MaxTimeouts, profile |-> MaxProfileEvents,
                 names |-> {{}}, suffixes |-> {100}, challenges |-> 0]

\* the server once every connection but the first two has come and gone
InitTwo ==
    /\ conn = [s \in Sockets |-> IF s <= 2 THEN "new" ELSE "closed"]
    /\ players = [s \in {} |-> 0]
    /\ battle = NoBattles
    /\ battles = {}
    /\ timers = {}
    /\ created = 0
    /\ lastEvent = Event("init", Null, "ok")
    /\ challenged = {}

\* one battle between the two, profiles written once at join
InitDuel ==
    /\ InitTwo
    /\ budget = [battles |-> 1, attacks |-> DuelAttacks,
                 timeouts |-> DuelTimeouts, profile |-> 0,
                 names |-> {{}}, suffixes |-> {100}, challenges |-> 0]

InitLong ==
    /\ InitTwo
    /\ budget = [battles |-> 1, attacks |-> LongAttacks,
                 timeouts |-> LongTimeouts, profile |-> 0,
                 names |-> {{}}, suffixes |-> {100}, challenges |-> 0]

InitProfile ==
    /\ InitTwo
    /\ budget = [battles |-> 1, attacks |-> ProfileAttacks,
                 timeouts |-> ProfileTimeouts, profile |-> ProfileEvents,
                 names |-> {{}}, suffixes |-> {100}, challenges |-> 0]

\* no attacks: the two connections join and re-join under names of their choice
InitNames ==
    /\ InitTwo
    /\ budget = [battles |-> 1, attacks |-> 0,
                 timeouts |-> NamesTimeouts, profile |-> NamesEvents,
                 names |-> OptNames, suffixes |-> SuffixChoices,
                 challenges |-> 0]

\* challenges are forwarded and recorded; no attacks
InitChallenge ==
    /\ InitTwo
    /\ budget = [battles |-> 1, attacks |-> 0,
                 timeouts |-> ChallengeTimeouts, profile |-> 0,
                 names |-> {{}}, suffixes |-> {100},
                 challenges |-> MaxChallenges]

\* a handler that returns after socket.emit('battle-error', ...) or that only
\* forwards a notification
NoChange == UNCHANGED vars

Value(opt) == CHOOSE v \in opt : TRUE

\* io.on('connection')
Connect(s) ==
    /\ conn[s] = "new"
    /\ conn' = [conn EXCEPT ![s] = "open"]
    /\ lastEvent' = Event("connect", Null, "ok")
    /\ UNCHANGED <<players, battle, battles, timers, created, budget, challenged>>

\* n.replace(/_[0-9]{2,4}$/, '')
stripSuffix(n) == [n EXCEPT !.suffix = NoSuffix]

\* the name player-join settles on: the supplied one, or Kot_<r1> when none is
\* supplied; when players.find meets a player with the same stripped name,
\* the stripped name followed by _<r2>
JoinName(s, optName, r1, r2) ==
    LET playerName == IF optName # {} THEN Value(optName)
                      ELSE [base |-> DefaultBase, suffix |-> r1]
        baseName == stripSuffix(playerName)
    IN  IF \E p \in Registered : stripSuffix(players[p].name) = baseName
        THEN [base |-> baseName.base, suffix |-> r2]
        ELSE playerName

\* socket.on('player-join'): a known socket is updated in place (a supplied
\* field replaces the old value), a new one is pushed with the defaults
JoinAs(s, optName, optRes, optCp, r1, r2) ==
    /\ conn[s] = "open"
    /\ IF s \in Registered
       THEN budget.profile > 0 /\ budget' = [budget EXCEPT !.profile = @ - 1]
       ELSE budget' = budget
    /\ players' =
         IF s \in Registered
         THEN [players EXCEPT
                 ![s].name = JoinName(s, optName, r1, r2),
                 ![s].resources = IF optRes # {} THEN Value(optRes) ELSE @,
                 ![s].clickPower = IF optCp # {} THEN Value(optCp) ELSE @]
         ELSE [p \in Registered \cup {s} |->
                 IF p = s
                 THEN [name |-> JoinName(s, optName, r1, r2),
                       resources |-> IF optRes # {} /\ Value(optRes) # 0
                                     THEN Value(optRes) ELSE 0,
                       clickPower |-> IF optCp # {} /\ Value(optCp) # 0
                                      THEN Value(optCp) ELSE 1,
                       inBattle |-> FALSE,
                       battleId |-> Null]
                 ELSE players[p]]
    /\ lastEvent' = Event("join", Null, "ok")
    /\ UNCHANGED <<conn, battle, battles, timers, created, challenged>>

PlayerJoin(s, optRes, optCp) ==
    \E optName \in budget.names, r1 \in budget.suffixes, r2 \in budget.suffixes :
        JoinAs(s, optName, optRes, optCp, r1, r2)

\* socket.on('player-update'): value || old, so 0 and a missing field keep the old value
PlayerUpdate(s, optRes, optCp) ==
    /\ conn[s] = "open"
    /\ IF s \in Registered
       THEN /\ budget.profile > 0
            /\ budget' = [budget EXCEPT !.profile = @ - 1]
            /\ players' = [players EXCEPT
                 ![s].resources = IF optRes # {} /\ Value(optRes) # 0
                                  THEN Value(optRes) ELSE @,
                 ![s].clickPower = IF optCp # {} /\ Value(optCp) # 0
                                   THEN Value(optCp) ELSE @]
            /\ lastEvent' = Event("update", Null, "ok")
       ELSE UNCHANGED <<players, budget, lastEvent>>
    /\ UNCHANGED <<conn, battle, battles, timers, created, challenged>>

\* socket.on('claim-task') for a task the player may claim: the reward is
\* added to the player's resources; for a socket that never joined only the
\* task table is written
ClaimTask(s, reward) ==
    /\ conn[s] = "open"
    /\ IF s \in Registered
       THEN /\ budget.profile > 0
            /\ budget' = [budget EXCEPT !.profile = @ - 1]
            /\ players' = AddResources(players, s, reward)
            /\ lastEvent' = Event("task", Null, "ok")
       ELSE UNCHANGED <<players, budget, lastEvent>>
    /\ UNCHANGED <<conn, battle, battles, timers, created, challenged>>

EitherInBattle_FirstOnly(ps, a, b) == ps[a].inBattle

\* acceptor.inBattle || challenger.inBattle (and the same test of battle-challenge)
EitherInBattle(ps, a, b) == ps[a].inBattle \/ ps[b].inBattle

\* the answer of socket.on('battle-challenge'): the battle-error it emits, or
\* "sent" when the challenge is forwarded to the target
ChallengeResult(s, targetId) ==
    IF s \notin Registered \/ targetId \notin Registered THEN "player not found"
    ELSE IF s = targetId THEN "self challenge"
    ELSE IF EitherInBattle(players, s, targetId) THEN "in battle"
    ELSE IF players[s].resources < ATTACK_COST THEN "insufficient resources"
    ELSE "sent"

\* socket.on('battle-challenge'): validation and notifications only.  The
\* server keeps no record of a challenge; challenged is the 'battle-challenge'
\* messages it has emitted to their targets.
BattleChallenge(s, targetId) ==
    /\ conn[s] = "open"
    /\ IF ChallengeResult(s, targetId) # "sent" \/ <<s, targetId>> \in challenged
       THEN NoChange
       ELSE /\ budget.challenges > 0
            /\ budget' = [budget EXCEPT !.challenges = @ - 1]
            /\ challenged' = challenged \cup {<<s, targetId>>}
            /\ lastEvent' = Event("challenge", Null, "sent")
            /\ UNCHANGED <<conn, players, battle, battles, timers, created>>

\* socket.on('battle-accept')
BattleAccept(s, challengerId) ==
    /\ conn[s] = "open"
    /\ IF s \notin Registered \/ challengerId \notin Registered
       THEN NoChange
       ELSE IF EitherInBattle(players, s, challengerId)
       THEN NoChange
       ELSE IF players[s].resources < ATTACK_COST
       THEN NoChange
       ELSE /\ created < budget.battles
            /\ created' = created + 1
            /\ LET bid == created + 1
                   flagged == [p \in Registered |->
                                 IF p \in {s, challengerId}
                                 THEN [players[p] EXCEPT !.inBattle = TRUE,
                                                         !.battleId = bid]
                                 ELSE players[p]]
                   w == startTurnTimer(
                            World(flagged, NewBattle(challengerId, s), timers), bid)
               IN  /\ players' = w.players
                   /\ battle' = [i \in Allocated \cup {bid} |->
                                   IF i = bid THEN w.b ELSE battle[i]]
                   /\ battles' = battles \cup {bid}
                   /\ timers' = w.timers
                   /\ lastEvent' = Event("accept", bid, "ok")
            /\ UNCHANGED <<conn, budget, challenged>>

\* an exception that leaves a handler reaches the event loop uncaught (the
\* file installs no process.on('uncaughtException')): the process exits with
\* every connection, and the arrays and pending timeouts are gone with it
ProcessExit(type) ==
    /\ conn' = [s \in Sockets |-> "closed"]
    /\ players' = [s \in {} |-> 0]
    /\ battle' = NoBattles
    /\ battles' = {}
    /\ timers' = {}
    /\ lastEvent' = Event(type, Null, "exit")
    /\ UNCHANGED <<created, challenged, budget>>

\* decliner.name is read without a null check once the challenger is found
DeclineThrows(s, challengerId) ==
    challengerId \in Registered /\ s \notin Registered

\* socket.on('battle-decline'): a notification to the challenger only; when
\* it throws, the exception is either swallowed by the caller of the handler
\* or ends the process
BattleDecline(s, challengerId) ==
    /\ conn[s] = "open"
    /\ IF DeclineThrows(s, challengerId)
       THEN \/ /\ lastEvent' = Event("decline", Null, "threw")
               /\ UNCHANGED <<conn, players, battle, battles, timers, created,
                              challenged, budget>>
            \/ ProcessExit("decline")
       ELSE NoChange

AttackResult_StatusFirst(s, bid, isSpecial) ==
    IF s \notin Registered \/ bid \notin battles THEN "battle not found"
    ELSE IF ~IsActive(battle[bid]) THEN "battle not active"
    ELSE IF ~isParticipant(battle[bid], s) THEN "not a participant"
    ELSE IF ~AttackAllowed(World(players, battle[bid], timers), s, isSpecial)
    THEN "attack rejected"
    ELSE "ok"

\* the answer of socket.on('battle-attack'): the one battle-error it emits, or
\* "ok" when performAttack returns an action
AttackResult(s, bid, isSpecial) ==
    IF s \notin Registered \/ bid \notin battles THEN "battle not found"
    ELSE IF ~isParticipant(battle[bid], s) THEN "not a participant"
    ELSE IF ~IsActive(battle[bid]) THEN "battle not active"
    ELSE IF ~AttackAllowed(World(players, battle[bid], timers), s, isSpecial)
    THEN "attack rejected"
    ELSE "ok"

\* socket.on('battle-attack')
BattleAttack(s, bid, isSpecial) ==
    /\ conn[s] = "open"
    /\ IF AttackResult(s, bid, isSpecial) # "ok"
       THEN NoChange
       ELSE \E draw \in RandomDraws(players[s].clickPower, isSpecial), coin \in BOOLEAN :
              LET w == performAttack(World(players, battle[bid], timers),
                                     bid, s, isSpecial, draw, coin)
              IN  /\ budget.attacks > 0
                  /\ budget' = [budget EXCEPT !.attacks = @ - 1]
                  /\ players' = w.players
                  /\ battle' = [battle EXCEPT ![bid] = w.b]
                  /\ timers' = w.timers
                  /\ lastEvent' = Event("attack", bid, "ok")
                  /\ UNCHANGED <<conn, battles, created, challenged>>

\* the flag clearing of battle-cancel and disconnect
FreePlayers_None(ps, ids) == ps

FreePlayers(ps, ids) ==
    [p \in DOMAIN ps |->
       IF p \in ids THEN [ps[p] EXCEPT !.inBattle = FALSE, !.battleId = Null]
       ELSE ps[p]]

\* socket.on('battle-cancel')
BattleCancel(s, bid) ==
    /\ conn[s] = "open"
    /\ IF s \notin Registered \/ bid \notin battles
       THEN NoChange
       ELSE IF ~isParticipant(battle[bid], s)
       THEN NoChange
       ELSE LET w == cancelBattle(World(players, battle[bid], timers), bid)
            IN  /\ players' = FreePlayers(w.players, {w.b.player1, w.b.player2})
                /\ battles' = battles \ {bid}
                /\ timers' = w.timers
                /\ battle' = [i \in Allocated \cap Referenced(battles', timers') |->
                                IF i = bid THEN w.b ELSE battle[i]]
                /\ lastEvent' = EventRemoving("cancel", bid, "ok",
                                               [i \in {bid} |-> w.b])
                /\ UNCHANGED <<conn, created, budget, challenged>>

\* socket.on('disconnect'): every battle of the list the socket takes part in
\* is cancelled and dropped, its opponent freed, then the player is spliced out
Disconnect(s) ==
    /\ conn[s] = "open"
    /\ LET playerBattles == {i \in battles : isParticipant(battle[i], s)}
           cancelled == [i \in playerBattles |->
                           cancelBattle(World(players, battle[i], timers), i)]
           opponents == {getOpponent(battle[i], s) : i \in playerBattles}
           freed == FreePlayers(players, opponents)
       IN  /\ timers' = {t \in timers :
                           \A i \in playerBattles : t \in cancelled[i].timers}
           /\ battles' = battles \ playerBattles
           /\ battle' = [i \in Allocated \cap Referenced(battles', timers') |->
                           IF i \in playerBattles THEN cancelled[i].b ELSE battle[i]]
           /\ players' = [p \in Registered \ {s} |-> freed[p]]
           /\ lastEvent' = EventNotifying("disconnect", Null, "ok",
                                          [i \in playerBattles |-> cancelled[i].b],
                                          {<<getOpponent(battle[i], s), i>> :
                                               i \in playerBattles})
    /\ conn' = [conn EXCEPT ![s] = "closed"]
    /\ UNCHANGED <<created, budget, challenged>>

\* a pending timeout fires: the handle stops being pending, the callback runs
TurnTimerFire(bid, handle) ==
    /\ <<bid, handle>> \in timers
    /\ IF IsActive(battle[bid])
       THEN budget.timeouts > 0 /\ budget' = [budget EXCEPT !.timeouts = @ - 1]
       ELSE budget' = budget
    /\ LET w == timerCallback(
                    World(players, battle[bid], timers \ {<<bid, handle>>}), bid)
       IN  /\ players' = w.players
           /\ timers' = w.timers
           /\ battle' = [i \in Allocated \cap Referenced(battles, timers') |->
                           IF i = bid THEN w.b ELSE battle[i]]
    /\ lastEvent' = Event("timer", bid,
                          IF IsActive(battle[bid]) THEN "ok" ELSE "ignored")
    /\ UNCHANGED <<conn, battles, created, challenged>>

Next ==
    \/ \E s \in Sockets : Connect(s)
    \/ \E s \in Sockets, r \in OptResources, c \in OptClickPower : PlayerJoin(s, r, c)
    \/ \E s \in Sockets, r \in OptResources, c \in OptClickPower : PlayerUpdate(s, r, c)
    \/ \E s \in Sockets, r \in TaskRewardChoices : ClaimTask(s, r)
    \/ \E s \in Sockets, t \in Sockets : BattleChallenge(s, t)
    \/ \E s \in Sockets, c \in Sockets : BattleAccept(s, c)
    \/ \E s \in Sockets, c \in Sockets : BattleDecline(s, c)
    \/ \E s \in Sockets, i \in BattleIds \cup {UnknownBattle}, sp \in BOOLEAN :
          BattleAttack(s, i, sp)
    \/ \E s \in Sockets, i \in BattleIds \cup {UnknownBattle} : BattleCancel(s, i)
    \/ \E s \in Sockets : Disconnect(s)
    \/ \E i \in BattleIds, h \in 1..(2 * MAX_TURNS + 1) : TurnTimerFire(i, h)

Spec == Init /\ [][Next]_vars

SpecDuel == InitDuel /\ [][Next]_vars

SpecLong == InitLong /\ [][Next]_vars

SpecProfile == InitProfile /\ [][Next]_vars

SpecNames == InitNames /\ [][Next]_vars

SpecChallenge == InitChallenge /\ [][Next]_vars

\* setTimeout: a timer that stays pending does fire
TimerFairness ==
    \A i \in BattleIds :
        WF_vars(\E h \in 1..(2 * MAX_TURNS + 1) : TurnTimerFire(i, h))

SpecLongFair == InitLong /\ [][Next]_vars /\ TimerFairness

\* ---------------------------------------------------------------- claims
Terminal(b) == b.status \in {"finished", "cancelled"}

Participants(b) == {b.player1, b.player2}

\* the Battle objects a state shows: the referenced ones and those the last
\* event dropped
Shown == {battle[i] : i \in Allocated}
             \cup {lastEvent.removed[i] : i \in DOMAIN lastEvent.removed}

\* C1: no registered player is a participant of two different battles that
\* are active at the same time.
C1_OneActiveBattlePerPlayer ==
    \A p \in Registered :
        Cardinality({i \in Allocated :
                        battle[i].status = "active" /\ isParticipant(battle[i], p)}) <= 1

\* a second battle has been created and is running between two players
C1_Witness ==
    /\ created = 2
    /\ \E i \in battles :
          /\ battle[i].status = "active"
          /\ battle[i].player1 # battle[i].player2
          /\ players[battle[i].player1].inBattle

\* C2: once a battle is finished or cancelled its status never changes again.
\* (The status of a battle an event drops from the array is read from the
\* object as the event left it.)
C2_TerminalStatusFinal ==
    [][\A i \in Allocated :
          Terminal(battle[i]) =>
              /\ i \in DOMAIN battle' => battle'[i].status = battle[i].status
              /\ i \in DOMAIN lastEvent'.removed /\ i \notin DOMAIN battle'
                    => lastEvent'.removed[i].status = battle[i].status]_vars

\* C3: an attack event or a timer fire aimed at a finished or cancelled battle
\* is not accepted and changes neither the battle's health, turn,
\* currentPlayer and action log nor any player's resources.
C3_AttackOrTimerOn(i) ==
    \/ \E s \in Sockets, sp \in BOOLEAN : BattleAttack(s, i, sp)
    \/ \E h \in 1..(2 * MAX_TURNS + 1) : TurnTimerFire(i, h)

C3_TerminalBattleUntouched ==
    [][\A i \in Allocated :
          (Terminal(battle[i]) /\ C3_AttackOrTimerOn(i)) =>
              /\ budget'.attacks = budget.attacks
              /\ budget'.timeouts = budget.timeouts
              /\ i \in DOMAIN battle' =>
                    /\ battle'[i].health = battle[i].health
                    /\ battle'[i].turn = battle[i].turn
                    /\ battle'[i].currentPlayer = battle[i].currentPlayer
                    /\ battle'[i].actionsLen = battle[i].actionsLen
                    /\ battle'[i].lastAction = battle[i].lastAction
                    /\ battle'[i].status = battle[i].status
              /\ \A p \in Registered :
                    p \in DOMAIN players'
                    /\ players'[p].resources = players[p].resources]_vars

\* a finished battle is still in the array and the player whose turn it was
\* can pay for another attack
C3_Witness ==
    \E i \in battles :
        /\ battle[i].status = "finished"
        /\ battle[i].currentPlayer \in Registered
        /\ players[battle[i].currentPlayer].resources >= ATTACK_COST

\* C4: with positive integer clickPower, every health value of every battle
\* is an integer in 0..MAX_HEALTH.
C4_HealthInRange ==
    \A b \in Shown : \A p \in DOMAIN b.health : b.health[p] \in 0..MAX_HEALTH

\* the timer has taken a player from below 5 health to 0, and an attack has
\* overshot a defender's health
C4_Witness ==
    \E i \in Allocated :
        /\ battle[i].lastAction = "timeout"
        /\ battle[i].status = "finished"
        /\ battle[i].actionsLen >= 4
        /\ \A p \in Registered : players[p].clickPower > 0

\* the attack events the claims call accepted: a registered sender, a battle
\* of the array that is active, the sender's turn, the cost covered
ClaimCost(isSpecial) == IF isSpecial THEN 25 ELSE 10

ClaimAccepts(s, i, isSpecial) ==
    /\ s \in Registered
    /\ i \in battles
    /\ battle[i].status = "active"
    /\ battle[i].currentPlayer = s
    /\ players[s].resources >= ClaimCost(isSpecial)

AttackInputs == Sockets \X (BattleIds \cup {UnknownBattle}) \X BOOLEAN

\* C5: in an active battle every accepted attack and every timeout that does
\* not end the battle hands the turn to a different participant and adds
\* exactly 1 to the turn counter; the first turn belongs to the challenger.
C5_TurnsAlternate ==
    [][/\ \A i \in DOMAIN battle' \ Allocated :
             battle'[i].turn = 0 /\ battle'[i].currentPlayer = battle'[i].player1
       /\ \A i \in Allocated \cap DOMAIN battle' :
             ( /\ battle[i].status = "active"
               /\ battle'[i].status = "active"
               /\ battle'[i].actionsLen # battle[i].actionsLen )
             => /\ battle'[i].currentPlayer # battle[i].currentPlayer
                /\ battle'[i].currentPlayer \in Participants(battle[i])
                /\ battle'[i].turn = battle[i].turn + 1]_vars

\* C5 for the battles whose two participants differ
C5_TurnsAlternateDistinct ==
    [][\A i \in Allocated \cap DOMAIN battle' :
             ( /\ battle[i].player1 # battle[i].player2
               /\ battle[i].status = "active"
               /\ battle'[i].status = "active"
               /\ battle'[i].actionsLen # battle[i].actionsLen )
             => /\ battle'[i].currentPlayer # battle[i].currentPlayer
                /\ battle'[i].currentPlayer \in Participants(battle[i])
                /\ battle'[i].turn = battle[i].turn + 1]_vars

\* C6: an accepted attack takes its cost (10, special 25) from the attacker
\* exactly once: the attacker's balance falls by the cost, apart from the
\* winner's reward when the attack ends the battle, and nobody else's balance
\* moves; a rejected attack leaves players and battles as they were.
C6_Credit(i, p) ==
    IF battle'[i].status = "finished" /\ battle'[i].winner = p
    THEN 50 + 5 * battle'[i].turn
    ELSE 0

C6_CostOncePerAcceptedAttack ==
    [][\A in \in AttackInputs :
          LET s == in[1]
              i == in[2]
              sp == in[3]
          IN  BattleAttack(s, i, sp) =>
                IF ClaimAccepts(s, i, sp)
                THEN /\ i \in DOMAIN battle'
                     /\ budget'.attacks = budget.attacks - 1
                     /\ DOMAIN players' = Registered
                     /\ \A p \in Registered :
                          players'[p].resources =
                              players[p].resources
                                  - (IF p = s THEN ClaimCost(sp) ELSE 0)
                                  + C6_Credit(i, p)
                ELSE UNCHANGED <<players, battle, battles, timers, created>>]_vars

\* two attacks have been accepted in a battle that is still running, the
\* last one a special attack, a registered player's profile has been rewritten
\* on the way, and a participant cannot pay for a further attack
C6_Witness ==
    /\ lastEvent.type = "attack"
    /\ budget.attacks = 0
    /\ budget.profile = 0
    /\ \E i \in battles :
          /\ battle[i].status = "active"
          /\ battle[i].lastAction = "special"
          /\ battle[i].actionsLen >= 2
          /\ \E s \in Registered : isParticipant(battle[i], s) /\ ~ClaimAccepts(s, i, FALSE)

\* the effect of an accepted attack that takes the defender's health to 0;
\* paid is what the attack itself takes from the attacker's balance
C7_Lethal(s, i, sp, paid) ==
    LET defender == IF s = battle[i].player1 THEN battle[i].player2
                    ELSE battle[i].player1
    IN  ( /\ BattleAttack(s, i, sp)
          /\ ClaimAccepts(s, i, sp)
          /\ i \in DOMAIN battle'
          /\ battle'[i].health[defender] = 0 )
        => /\ battle'[i].status = "finished"
           /\ battle'[i].winner = s
           /\ battle'[i].currentPlayer = battle[i].currentPlayer
           /\ battle'[i].turn = battle[i].turn
           /\ players'[s].resources =
                  players[s].resources - paid + 50 + 5 * battle[i].turn

\* C7 as claimed: an accepted attack that takes the defender's health to 0
\* finishes the battle with the attacker as winner, leaves currentPlayer and
\* the turn counter as they were, and raises the attacker's resources by
\* 50 + 5 * turn.
C7_LethalAttackAsClaimed ==
    [][\A in \in AttackInputs : C7_Lethal(in[1], in[2], in[3], 0)]_vars

\* C7 amended: as claimed, except that the attacker's resources change by
\* 50 + 5 * turn minus the cost of the attack (10, special 25).
C7_LethalAttackAmended ==
    [][\A in \in AttackInputs :
          C7_Lethal(in[1], in[2], in[3], ClaimCost(in[3]))]_vars

\* an attack has just finished a battle after the turn counter had moved
C7_Witness ==
    /\ lastEvent.type = "attack"
    /\ lastEvent.bid \in Allocated
    /\ battle[lastEvent.bid].status = "finished"
    /\ battle[lastEvent.bid].turn > 0
    /\ \E p \in Participants(battle[lastEvent.bid]) : battle[lastEvent.bid].health[p] = 0

\* C8: finishBattle takes effect at most once in a battle's life.
C8_FinishedAtMostOnce ==
    \A b \in Shown : b.finishCalls <= 1

\* a battle that was finished has since been cancelled
C8_Witness ==
    \E b \in Shown : b.finishCalls = 1 /\ b.status = "cancelled"

\* C9: an accepted attack that does not end the battle clears the pending
\* timer and arms a fresh one, so that every pending timer of an active battle
\* was armed after the last turn advance.
C9_AttackRearmsTimer ==
    [][\A in \in AttackInputs :
          LET s == in[1]
              i == in[2]
              sp == in[3]
          IN  ( /\ BattleAttack(s, i, sp)
                /\ ClaimAccepts(s, i, sp)
                /\ i \in DOMAIN battle'
                /\ battle'[i].status = "active" )
              => /\ battle'[i].turnTimer # battle[i].turnTimer
                 /\ <<i, battle[i].turnTimer>> \notin timers'
                 /\ <<i, battle'[i].turnTimer>> \in timers']_vars

\* C10 as claimed: a timer fire on an active battle takes exactly 5 health
\* (floored at 0) from the current player, leaves other participants' health
\* and all resources alone and appends a timeout action; at 0 health the
\* battle finishes with the opponent as winner, otherwise the opponent gets
\* the turn, the counter grows by 1 and a new timer is armed.
C10_Timeout(i, h, rewarded) ==
    LET b == battle[i]
        cur == b.currentPlayer
        opp == IF cur = b.player1 THEN b.player2 ELSE b.player1
    IN  ( TurnTimerFire(i, h) /\ b.status = "active" ) =>
          /\ i \in DOMAIN battle'
          /\ battle'[i].health[cur] = (IF b.health[cur] > 5 THEN b.health[cur] - 5 ELSE 0)
          /\ \A q \in Participants(b) \ {cur} : battle'[i].health[q] = b.health[q]
          /\ battle'[i].actionsLen = b.actionsLen + 1
          /\ battle'[i].lastAction = "timeout"
          /\ DOMAIN players' = Registered
          /\ \A p \in Registered :
                players'[p].resources =
                    players[p].resources
                        + (IF rewarded /\ battle'[i].status = "finished" /\ p = opp
                           THEN 50 + 5 * b.turn ELSE 0)
          /\ IF battle'[i].health[cur] = 0
             THEN /\ battle'[i].status = "finished"
                  /\ battle'[i].winner = opp
             ELSE /\ battle'[i].status = "active"
                  /\ battle'[i].currentPlayer = opp
                  /\ battle'[i].turn = b.turn + 1
                  /\ {t \in timers' : t[1] = i} = {<<i, battle'[i].turnTimer>>}
                  /\ battle'[i].turnTimer # h

C10_TimeoutAsClaimed ==
    [][\A i \in Allocated, h \in 1..(2 * MAX_TURNS + 1) : C10_Timeout(i, h, FALSE)]_vars

\* C10 amended: as claimed, except that a timeout that ends the battle credits
\* the winner 50 + 5 * turn.
C10_TimeoutAmended ==
    [][\A i \in Allocated, h \in 1..(2 * MAX_TURNS + 1) : C10_Timeout(i, h, TRUE)]_vars

\* a timer fire has just ended a battle between two players
C10_Witness ==
    /\ lastEvent.type = "timer"
    /\ lastEvent.bid \in Allocated
    /\ battle[lastEvent.bid].status = "finished"
    /\ battle[lastEvent.bid].player1 # battle[lastEvent.bid].player2

\* C11: if pending turn timers eventually fire, every active battle
\* eventually is finished or cancelled, whatever attacks come in between.
C11_ActiveBattleEnds ==
    \A i \in BattleIds :
        (i \in Allocated /\ battle[i].status = "active")
            ~> (i \notin Allocated \/ Terminal(battle[i]))

\* timeouts alone have finished a battle between two players
C11_Witness ==
    \E i \in battles :
        /\ battle[i].status = "finished"
        /\ battle[i].lastAction = "timeout"
        /\ battle[i].player1 # battle[i].player2
        /\ battle[i].actionsLen = battle[i].turn + 1
        /\ budget.attacks = LongAttacks

\* C12: an accepted attack that takes the turn counter to 20 while both
\* participants' health is positive and unequal finishes the battle, and the
\* winner is the participant whose health is strictly higher.
C12_TurnLimitWinner ==
    [][\A in \in AttackInputs :
          LET s == in[1]
              i == in[2]
              sp == in[3]
          IN  ( /\ BattleAttack(s, i, sp)
                /\ ClaimAccepts(s, i, sp)
                /\ i \in DOMAIN battle'
                /\ battle'[i].turn = 20
                /\ battle'[i].turn # battle[i].turn
                /\ \A p \in Participants(battle[i]) : battle'[i].health[p] > 0
                /\ battle'[i].health[battle[i].player1]
                       # battle'[i].health[battle[i].player2] )
              => /\ battle'[i].status = "finished"
                 /\ battle'[i].winner \in Participants(battle[i])
                 /\ \A p \in Participants(battle[i]) :
                       battle'[i].health[p] <= battle'[i].health[battle'[i].winner]]_vars

\* an attack has just ended a battle at the turn limit with unequal health
C12_Witness ==
    /\ lastEvent.type = "attack"
    /\ lastEvent.bid \in Allocated
    /\ LET b == battle[lastEvent.bid]
       IN  /\ b.status = "finished"
           /\ b.turn = 20
           /\ b.lastAction \in {"attack", "special"}
           /\ b.health[b.player1] > 0
           /\ b.health[b.player2] > 0
           /\ b.health[b.player1] # b.health[b.player2]

\* C13: every battle created by an accept has two distinct participants; an
\* accept that names the accepting player itself as challenger is rejected
\* and changes nothing.
C13_DistinctParticipants ==
    [][\A s \in Sockets :
          /\ BattleAccept(s, s) => UNCHANGED <<players, battle, battles, timers, created>>
          /\ \A i \in DOMAIN battle' \ Allocated :
                battle'[i].player1 # battle'[i].player2]_vars

\* C14: an accept whose named challenger holds less than the attack cost (10)
\* at that moment is rejected: no battle is created.
C14_AcceptChecksChallengerBalance ==
    [][\A s \in Sockets, c \in Sockets :
          ( /\ BattleAccept(s, c)
            /\ c \in Registered
            /\ players[c].resources < 10 )
          => UNCHANGED <<players, battle, battles, timers, created>>]_vars

\* C15: when a participant of an active battle disconnects, that one step
\* cancels the battle, clears the opponent's in-battle flag and battle id,
\* sends the opponent a battle-cancelled notice, removes the battle from the
\* battles array and the player from the registry; no battle of the array has
\* the disconnected id as a participant afterwards.
C15_DisconnectCleansUp ==
    [][\A s \in Sockets :
          Disconnect(s) =>
            /\ s \notin DOMAIN players'
            /\ \A j \in battles' : ~isParticipant(battle'[j], s)
            /\ \A i \in battles :
                 (isParticipant(battle[i], s) /\ battle[i].status = "active") =>
                   LET opp == IF s = battle[i].player1 THEN battle[i].player2
                              ELSE battle[i].player1
                   IN  /\ i \notin battles'
                       /\ i \in DOMAIN lastEvent'.removed
                       /\ lastEvent'.removed[i].status = "cancelled"
                       /\ <<opp, i>> \in lastEvent'.notices
                       /\ opp # s =>
                            /\ opp \in DOMAIN players'
                            /\ ~players'[opp].inBattle
                            /\ players'[opp].battleId = Null]_vars

\* a player has just disconnected from a running battle against another
\* player, who is still registered
C15_Witness ==
    /\ lastEvent.type = "disconnect"
    /\ \E i \in DOMAIN lastEvent.removed :
          LET b == lastEvent.removed[i]
          IN  /\ b.status = "cancelled"
              /\ b.winner = Null
              /\ b.player1 # b.player2
              /\ \E p \in Participants(b) : p \in Registered /\ ~players[p].inBattle

\* C16: a cancel event from a participant of the named battle sets the battle
\* to cancelled, clears both participants' in-battle flags and battle ids and
\* removes the battle from the battles array; a cancel event from anybody
\* else, or naming an unknown battle, changes no battle and no player.
C16_CancelEffect ==
    [][\A s \in Sockets, i \in BattleIds \cup {UnknownBattle} :
          BattleCancel(s, i) =>
            IF i \in battles /\ isParticipant(battle[i], s)
            THEN /\ i \notin battles'
                 /\ i \in DOMAIN lastEvent'.removed
                 /\ lastEvent'.removed[i].status = "cancelled"
                 /\ \A p \in Participants(battle[i]) :
                      /\ p \in DOMAIN players'
                      /\ ~players'[p].inBattle
                      /\ players'[p].battleId = Null
                 /\ \A j \in battles \ {i} :
                      j \in battles' /\ battle'[j] = battle[j]
            ELSE UNCHANGED <<players, battle, battles, timers, created>>]_vars

\* a participant has just cancelled a running battle against another player
C16_Witness ==
    /\ lastEvent.type = "cancel"
    /\ lastEvent.bid \in DOMAIN lastEvent.removed
    /\ LET b == lastEvent.removed[lastEvent.bid]
       IN  /\ b.status = "cancelled"
           /\ b.winner = Null
           /\ b.player1 # b.player2
           /\ \A p \in Participants(b) : p \in Registered /\ ~players[p].inBattle

\* C17: a battle never has more than one pending turn timer; an active battle
\* has exactly one and a finished or cancelled battle has none.
PendingTimers(i) == {t \in timers : t[1] = i}

C17_OnePendingTimer ==
    /\ \A t \in timers : t[1] \in Allocated
    /\ \A i \in Allocated :
         /\ Cardinality(PendingTimers(i)) <= 1
         /\ battle[i].status = "active" => Cardinality(PendingTimers(i)) = 1
         /\ Terminal(battle[i]) => PendingTimers(i) = {}

\* an attack has just finished a battle whose timer had been re-armed by a
\* timeout before
C17_Witness ==
    /\ lastEvent.type = "attack"
    /\ lastEvent.bid \in Allocated
    /\ battle[lastEvent.bid].status = "finished"
    /\ battle[lastEvent.bid].turnTimer > 1
    /\ PendingTimers(lastEvent.bid) = {}

\* C18: after every event the battles array holds active battles only: a
\* battle that finishes is removed from it, as a cancelled one is.
C18_OnlyActiveBattlesListed ==
    \A i \in battles : battle[i].status = "active"

\* C19: for every registered player the in-battle flag is set iff the battle
\* id is non-null, and a set flag means that the battle id names an active
\* battle of the battles array in which the player takes part.
C19_FlagsMatchBattles ==
    \A p \in Registered :
        /\ players[p].inBattle <=> players[p].battleId # Null
        /\ players[p].inBattle =>
             /\ players[p].battleId \in battles
             /\ battle[players[p].battleId].status = "active"
             /\ isParticipant(battle[players[p].battleId], p)

\* C20: in every battle state, and so in every snapshot sent to clients, the
\* winner is non-null only when the status is finished.
C20_WinnerOnlyWhenFinished ==
    \A b \in Shown : b.winner # Null => b.status = "finished"

\* the reason the claim gives for an attack event, in the claim's order
C21_Reason(s, i, isSpecial) ==
    IF i \notin battles THEN "battle not found"
    ELSE IF s \notin Participants(battle[i]) THEN "not a participant"
    ELSE IF battle[i].status # "active" THEN "battle not active"
    ELSE IF battle[i].currentPlayer # s \/ players[s].resources < ClaimCost(isSpecial)
    THEN "attack rejected"
    ELSE "ok"

C21_ReasonsAgree(senders) ==
    \A s \in senders, i \in BattleIds \cup {UnknownBattle}, sp \in BOOLEAN :
        conn[s] = "open" => AttackResult(s, i, sp) = C21_Reason(s, i, sp)

\* C21 as claimed: every attack event that is rejected gets exactly one of
\* four reasons, decided in this order: unknown battle id, sender not a
\* participant, battle not active, wrong turn or too few resources; a rejected
\* attack changes no state.
C21_RejectionsAsClaimed ==
    /\ []C21_ReasonsAgree(Sockets)
    /\ [][\A in \in AttackInputs :
            (BattleAttack(in[1], in[2], in[3]) /\ C21_Reason(in[1], in[2], in[3]) # "ok")
            => UNCHANGED <<players, battle, battles, timers, created>>]_vars

\* C21 amended: as claimed for senders that have joined; an attack event from
\* a connection that has not joined is answered 'battle not found' whatever
\* battle it names, and changes no state either.
C21_RejectionsAmended ==
    /\ [](/\ C21_ReasonsAgree(Registered)
          /\ \A s \in Sockets \ Registered, i \in BattleIds \cup {UnknownBattle},
                sp \in BOOLEAN :
                conn[s] = "open" => AttackResult(s, i, sp) = "battle not found")
    /\ [][\A in \in AttackInputs :
            ( /\ BattleAttack(in[1], in[2], in[3])
              /\ in[1] \notin Registered \/ C21_Reason(in[1], in[2], in[3]) # "ok" )
            => UNCHANGED <<players, battle, battles, timers, created>>]_vars

\* a joined player who takes no part in a battle that is no longer active can
\* ask to attack in it, and so can its participant
C21_Witness ==
    \E i \in battles :
        /\ battle[i].status # "active"
        /\ \E s \in Registered :
              conn[s] = "open" /\ AttackResult(s, i, FALSE) = "not a participant"
        /\ \E s \in Registered :
              conn[s] = "open" /\ AttackResult(s, i, FALSE) = "battle not active"

\* C22: no two registered players have the same display name, whatever
\* suffix is drawn on a collision.
C22_NamesUnique ==
    \A p \in Registered, q \in Registered :
        p # q => players[p].name # players[q].name

\* C23: a player who re-joins on the same connection under the name they
\* already hold, while no other registered player has that base name, keeps
\* exactly that name.
C23_RejoinKeepsName ==
    [][\A s \in Registered, optRes \in OptResources, optCp \in OptClickPower,
          r1 \in SuffixChoices, r2 \in SuffixChoices :
          ( /\ JoinAs(s, {players[s].name}, optRes, optCp, r1, r2)
            /\ \A p \in Registered \ {s} :
                  stripSuffix(players[p].name) # stripSuffix(players[s].name) )
          => players'[s].name = players[s].name]_vars

\* C24: a challenge or decline event, accepted or rejected, leaves the
\* registry and the battle collection as they were, and a battle comes into
\* existence only in the step of an accept event.
C24_ChallengeDeclinePure ==
    [][ /\ \A s \in Sockets, t \in Sockets :
             (BattleChallenge(s, t) \/ BattleDecline(s, t))
             => UNCHANGED <<players, battle, battles, timers, created>>
        /\ (created' # created \/ battles' \ battles # {})
             => \E s \in Sockets, c \in Sockets : BattleAccept(s, c) ]_vars

\* the claim's damage band for an attacker of the given click power
C25_Base(clickPower, isSpecial) ==
    (IF isSpecial THEN 25 ELSE 10) + (clickPower \div 10)

C25_Band(clickPower, isSpecial) ==
    LET base == C25_Base(clickPower, isSpecial)
    IN  (base - base \div 5) .. (base + base \div 5)

C25_AttackEffect(s, i, sp) ==
    LET defender == IF s = battle[i].player1 THEN battle[i].player2
                    ELSE battle[i].player1
    IN  ( /\ BattleAttack(s, i, sp)
          /\ ClaimAccepts(s, i, sp)
          /\ players[s].clickPower > 0 )
        => /\ i \in DOMAIN battle'
           /\ \E d \in C25_Band(players[s].clickPower, sp) :
                 battle'[i].health[defender] = Max(0, battle[i].health[defender] - d)
           /\ battle'[i].health[s] = battle[i].health[s]

\* C25: an accepted attack of an attacker with positive click power does a
\* damage d within base - floor(base * 0.2) .. base + floor(base * 0.2), where
\* base is 10 (special 25) plus floor(clickPower * 0.1); the defender's health
\* becomes max(0, health - d) and the attacker's own health stays as it was.
C25_DamageWithinBand ==
    [][\A in \in AttackInputs : C25_AttackEffect(in[1], in[2], in[3])]_vars

\* C26: with every supplied balance a non-negative integer, the resource
\* balance of every registered player is non-negative in every reachable
\* state, whatever attacks, rewards, timeouts, cancels and disconnects occur.
C26_ResourcesNonNegative ==
    \A p \in Registered : players[p].resources >= 0

\* a participant has just spent its last resources on an attack and can pay
\* for no further one
C26_Witness ==
    /\ lastEvent.type = "attack"
    /\ \E i \in battles, s \in Registered :
          /\ isParticipant(battle[i], s)
          /\ battle[i].actionsLen >= 2
          /\ players[s].resources = 0

\* C27: no event ends in an exception that leaves its handler; a decline
\* from a connection that never joined, naming a registered challenger, is
\* handled without one.
C27_NoEventThrows == lastEvent.result \notin {"threw", "exit"}

\* C28: an active battle's turn counter is below 20 and no battle's turn
\* counter exceeds 20, whatever attacks and timeouts occur; so no attack or
\* timeout credits a player with more than 50 + 5 * 20 = 150.
C28_TurnBelowLimit ==
    /\ [](\A b \in Shown : (b.status = "active" => b.turn < 20) /\ b.turn <= 20)
    /\ [][lastEvent'.type \in {"attack", "timer"}
            => \A p \in Registered \cap DOMAIN players' :
                  players'[p].resources - players[p].resources <= 150]_vars

\* C29: a battle between challenger c and acceptor s is created only when a
\* challenge of c targeting s was validated and forwarded before.
C29_BattleOnlyAfterChallenge ==
    [][\A s \in Sockets, c \in Sockets :
          (BattleAccept(s, c) /\ created' # created) => <<c, s>> \in challenged]_vars

====
